---- MODULE Spec2Model ----
(***************************************************************************)
(* Model of the ra-constants crate (rust/src/phi.rs, thresholds.rs,        *)
(* frequencies.rs): a stateless library of pure numeric functions.  The    *)
(* state machine is a caller that invokes one library function at a time   *)
(* and observes its outcome (a returned value or a panic); the loop of     *)
(* fibonacci_ratio is modelled one iteration per step.                     *)
(*                                                                         *)
(* Numbers.  TLC integers are 32 bits wide, too narrow for u64 and for the *)
(* 16-digit f64 literals, so unbounded naturals are little-endian          *)
(* sequences of base-10000 limbs.  An f64 is an exact rational n/d or one  *)
(* of NaN, +inf, -inf; comparisons and arithmetic on the special values    *)
(* follow IEEE 754 as Rust does.  Rounding of finite results and signed    *)
(* zeros are not modelled (finite arithmetic is exact).                    *)
(***************************************************************************)
EXTENDS Integers, Sequences, FiniteSets, TLC

-----------------------------------------------------------------------------
(* Unbounded naturals: <<>> is 0, limb 1 is the least significant.         *)

(* Every recursion below runs over a limb index and hands its sequence     *)
(* arguments on unchanged.                                                 *)

Limb(a, i) == IF i <= Len(a) THEN a[i] ELSE 0

MaxOf(m, n) == IF m >= n THEN m ELSE n

(* The number of limbs of a[1..i] once its high zero limbs are dropped.    *)
RECURSIVE TopLimb(_, _)
TopLimb(a, i) ==
    IF i = 0 THEN 0 ELSE IF a[i] # 0 THEN i ELSE TopLimb(a, i - 1)

NatNorm(a) == SubSeq(a, 1, TopLimb(a, Len(a)))

RECURSIVE NatFromInt(_)
NatFromInt(k) ==
    IF k = 0 THEN <<>> ELSE <<k % 10000>> \o NatFromInt(k \div 10000)

(* The carry of a + b into limb i.                                         *)
RECURSIVE AddCarry(_, _, _)
AddCarry(a, b, i) ==
    IF i = 1 THEN 0
    ELSE (Limb(a, i - 1) + Limb(b, i - 1) + AddCarry(a, b, i - 1)) \div 10000

NatAdd(a, b) ==
    NatNorm([i \in 1..(MaxOf(Len(a), Len(b)) + 1) |->
                (Limb(a, i) + Limb(b, i) + AddCarry(a, b, i)) % 10000])

RECURSIVE NatCmpFrom(_, _, _)
NatCmpFrom(a, b, i) ==
    IF i = 0 THEN 0
    ELSE IF a[i] < b[i] THEN -1
    ELSE IF a[i] > b[i] THEN 1
    ELSE NatCmpFrom(a, b, i - 1)

NatCmp(a, b) ==
    IF Len(a) < Len(b) THEN -1
    ELSE IF Len(a) > Len(b) THEN 1
    ELSE NatCmpFrom(a, b, Len(a))

NatLe(a, b) == NatCmp(a, b) <= 0
NatLt(a, b) == NatCmp(a, b) < 0

(* The borrow of a - b out of limb i, for a >= b.                          *)
RECURSIVE SubBorrow(_, _, _)
SubBorrow(a, b, i) ==
    IF i = 1 THEN 0
    ELSE IF Limb(a, i - 1) - Limb(b, i - 1) - SubBorrow(a, b, i - 1) < 0 THEN 1
    ELSE 0

NatSub(a, b) ==
    NatNorm([i \in 1..Len(a) |->
                (Limb(a, i) - Limb(b, i) - SubBorrow(a, b, i) + 10000) % 10000])

(* Column k of the schoolbook product: the sum of a[i] * b[k + 1 - i]      *)
(* over i <= upto.                                                         *)
RECURSIVE MulColumn(_, _, _, _)
MulColumn(a, b, k, upto) ==
    IF upto = 0 THEN 0
    ELSE Limb(a, upto) * (IF k + 1 - upto >= 1 THEN Limb(b, k + 1 - upto) ELSE 0)
         + MulColumn(a, b, k, upto - 1)

(* The carry of a * b into column k.                                       *)
RECURSIVE MulCarry(_, _, _)
MulCarry(a, b, k) ==
    IF k = 1 THEN 0
    ELSE (MulColumn(a, b, k - 1, Len(a)) + MulCarry(a, b, k - 1)) \div 10000

NatMul(a, b) ==
    NatNorm([k \in 1..(Len(a) + Len(b)) |->
                (MulColumn(a, b, k, Len(a)) + MulCarry(a, b, k)) % 10000])

-----------------------------------------------------------------------------
(* Signed integers over the naturals: [neg, mag], zero is never negative.  *)

Sgn(neg, mag) == [neg |-> neg /\ mag # <<>>, mag |-> mag]

SFromInt(k) == IF k < 0 THEN Sgn(TRUE, NatFromInt(-k)) ELSE Sgn(FALSE, NatFromInt(k))

SNeg(x) == Sgn(~x.neg, x.mag)

SAdd(x, y) ==
    IF x.neg = y.neg THEN Sgn(x.neg, NatAdd(x.mag, y.mag))
    ELSE IF NatLe(y.mag, x.mag) THEN Sgn(x.neg, NatSub(x.mag, y.mag))
    ELSE Sgn(y.neg, NatSub(y.mag, x.mag))

SSub(x, y) == SAdd(x, SNeg(y))

SMulNat(x, m) == Sgn(x.neg, NatMul(x.mag, m))

SMul(x, y) == Sgn(x.neg # y.neg, NatMul(x.mag, y.mag))

SCmp(x, y) ==
    IF x.neg /\ ~y.neg THEN -1
    ELSE IF ~x.neg /\ y.neg THEN 1
    ELSE IF x.neg THEN NatCmp(y.mag, x.mag)
    ELSE NatCmp(x.mag, y.mag)

SSign(x) == IF x.mag = <<>> THEN 0 ELSE IF x.neg THEN -1 ELSE 1

-----------------------------------------------------------------------------
(* f64: a rational n/d (d > 0), or NaN, +inf, -inf.                        *)

Fin(n, d) == [k |-> "fin", n |-> n, d |-> d]
NaN  == [k |-> "nan",  n |-> SFromInt(0), d |-> <<1>>]
PInf == [k |-> "pinf", n |-> SFromInt(0), d |-> <<1>>]
NInf == [k |-> "ninf", n |-> SFromInt(0), d |-> <<1>>]

(* The f64 of the integer k, and of the fraction k/m (small k, m > 0).     *)
FromInt(k) == Fin(SFromInt(k), <<1>>)
Frac(k, m) == Fin(SFromInt(k), NatFromInt(m))

(* A decimal literal: digits (a natural) over a power of ten (a natural).  *)
Lit(digits, scale) == Fin(Sgn(FALSE, digits), scale)

IsNaN(x) == x.k = "nan"
IsFinite(x) == x.k = "fin"
IsInf(x) == x.k \in {"pinf", "ninf"}

(* Sign of a non-NaN value: -1, 0 or 1.                                    *)
FSign(x) == IF x.k = "pinf" THEN 1 ELSE IF x.k = "ninf" THEN -1 ELSE SSign(x.n)

(* Three-way comparison of two non-NaN values.                             *)
FCmp(x, y) ==
    IF x.k = "fin" /\ y.k = "fin"
    THEN SCmp(SMulNat(x.n, y.d), SMulNat(y.n, x.d))
    ELSE IF x.k = y.k THEN 0
    ELSE IF x.k = "ninf" \/ y.k = "pinf" THEN -1
    ELSE 1

(* IEEE comparisons: every comparison with NaN is false.                   *)
FLt(x, y) == ~IsNaN(x) /\ ~IsNaN(y) /\ FCmp(x, y) < 0
FLe(x, y) == ~IsNaN(x) /\ ~IsNaN(y) /\ FCmp(x, y) <= 0
FGt(x, y) == FLt(y, x)
FGe(x, y) == FLe(y, x)
FEq(x, y) == ~IsNaN(x) /\ ~IsNaN(y) /\ FCmp(x, y) = 0

FNeg(x) ==
    IF x.k = "fin" THEN Fin(SNeg(x.n), x.d)
    ELSE IF x.k = "pinf" THEN NInf
    ELSE IF x.k = "ninf" THEN PInf
    ELSE NaN

FAdd(x, y) ==
    IF IsNaN(x) \/ IsNaN(y) THEN NaN
    ELSE IF x.k = "fin" /\ y.k = "fin"
    THEN (IF x.d = y.d THEN Fin(SAdd(x.n, y.n), x.d)
          ELSE Fin(SAdd(SMulNat(x.n, y.d), SMulNat(y.n, x.d)), NatMul(x.d, y.d)))
    ELSE IF x.k = "fin" THEN y
    ELSE IF y.k = "fin" THEN x
    ELSE IF x.k = y.k THEN x
    ELSE NaN

FSub(x, y) == FAdd(x, FNeg(y))

FMul(x, y) ==
    IF IsNaN(x) \/ IsNaN(y) THEN NaN
    ELSE IF x.k = "fin" /\ y.k = "fin"
    THEN Fin(SMul(x.n, y.n), NatMul(x.d, y.d))
    ELSE IF FSign(x) = 0 \/ FSign(y) = 0 THEN NaN
    ELSE IF FSign(x) = FSign(y) THEN PInf
    ELSE NInf

FDiv(x, y) ==
    IF IsNaN(x) \/ IsNaN(y) THEN NaN
    ELSE IF IsInf(x) /\ IsInf(y) THEN NaN
    ELSE IF IsInf(x) THEN (IF (FSign(x) < 0) # (FSign(y) < 0) THEN NInf ELSE PInf)
    ELSE IF IsInf(y) THEN FromInt(0)
    ELSE IF FSign(y) = 0
         THEN (IF FSign(x) = 0 THEN NaN ELSE IF FSign(x) > 0 THEN PInf ELSE NInf)
    ELSE Fin(Sgn(x.n.neg # y.n.neg, NatMul(x.n.mag, y.d)), NatMul(x.d, y.n.mag))

FAbs(x) ==
    IF x.k = "fin" THEN Fin(Sgn(FALSE, x.n.mag), x.d)
    ELSE IF IsNaN(x) THEN NaN
    ELSE PInf

(* f64::max and f64::min return the other operand when one is NaN.         *)
FMax(x, y) == IF IsNaN(x) THEN y ELSE IF IsNaN(y) THEN x
              ELSE IF FCmp(x, y) >= 0 THEN x ELSE y
FMin(x, y) == IF IsNaN(x) THEN y ELSE IF IsNaN(y) THEN x
              ELSE IF FCmp(x, y) <= 0 THEN x ELSE y

(* f64::clamp(lo, hi) for lo <= hi: NaN stays NaN.                         *)
FClamp(x, lo, hi) == IF FLt(x, lo) THEN lo ELSE IF FGt(x, hi) THEN hi ELSE x

(* sqrt(x) <= t without forming the irrational root: sqrt of a negative    *)
(* number or of NaN is NaN, sqrt(+inf) = +inf; for finite x >= 0 and       *)
(* finite t, sqrt(x) <= t iff t >= 0 and x <= t*t.                         *)
SqrtLe(x, t) ==
    IF IsNaN(x) \/ IsNaN(t) \/ FSign(x) < 0 THEN FALSE
    ELSE IF t.k = "pinf" THEN TRUE
    ELSE IF t.k = "ninf" \/ x.k = "pinf" THEN FALSE
    ELSE FSign(t) >= 0 /\ FLe(x, FMul(t, t))

-----------------------------------------------------------------------------
(* Outcome of a call: a panic, or a returned level, f64, bool or power.    *)

NoPow == [via |-> "none", base |-> "none", exp |-> 0]

Blank == [status |-> "none", msg |-> "", level |-> "none", path |-> "none",
          val |-> FromInt(0), flag |-> FALSE, pw |-> NoPow]

Panic(msg)        == [Blank EXCEPT !.status = "panic", !.msg = msg]
RetLevel(l, path) == [Blank EXCEPT !.status = "ok", !.level = l, !.path = path]
RetF64(v)         == [Blank EXCEPT !.status = "ok", !.val = v]
RetBool(b)        == [Blank EXCEPT !.status = "ok", !.flag = b]
RetPow(via, base, e) ==
    [Blank EXCEPT !.status = "ok", !.pw = [via |-> via, base |-> base, exp |-> e]]

-----------------------------------------------------------------------------
(* thresholds.rs                                                           *)

HIGH_COHERENCE    == Frac(85, 100)
MEDIUM_COHERENCE  == Frac(6, 10)
LOW_COHERENCE     == Frac(3, 10)
MINIMUM_COHERENCE == Frac(1, 10)

(* CoherenceLevel, in the order classify tries the levels.                 *)
Levels == <<"Peak", "High", "Medium", "Low", "Minimal">>

CoherenceBand(lower, upper, name) == [lower |-> lower, upper |-> upper, name |-> name]

(* Mutant: the Peak band ends at 1.0, so 1.0 lies in no band.              *)
band_PeakUpperOne(level) ==
    CASE level = "Peak"    -> CoherenceBand(HIGH_COHERENCE, FromInt(1), "peak")
      [] level = "High"    -> CoherenceBand(MEDIUM_COHERENCE, HIGH_COHERENCE, "high")
      [] level = "Medium"  -> CoherenceBand(LOW_COHERENCE, MEDIUM_COHERENCE, "medium")
      [] level = "Low"     -> CoherenceBand(MINIMUM_COHERENCE, LOW_COHERENCE, "low")
      [] level = "Minimal" -> CoherenceBand(FromInt(0), MINIMUM_COHERENCE, "minimal")

(* Mutant: the Low and Medium arms carry each other's bounds.              *)
band_LowMediumSwapped(level) ==
    CASE level = "Peak"    -> CoherenceBand(HIGH_COHERENCE, Frac(101, 100), "peak")
      [] level = "High"    -> CoherenceBand(MEDIUM_COHERENCE, HIGH_COHERENCE, "high")
      [] level = "Medium"  -> CoherenceBand(MINIMUM_COHERENCE, LOW_COHERENCE, "medium")
      [] level = "Low"     -> CoherenceBand(LOW_COHERENCE, MEDIUM_COHERENCE, "low")
      [] level = "Minimal" -> CoherenceBand(FromInt(0), MINIMUM_COHERENCE, "minimal")

band(level) ==
    CASE level = "Peak"    -> CoherenceBand(HIGH_COHERENCE, Frac(101, 100), "peak")
      [] level = "High"    -> CoherenceBand(MEDIUM_COHERENCE, HIGH_COHERENCE, "high")
      [] level = "Medium"  -> CoherenceBand(LOW_COHERENCE, MEDIUM_COHERENCE, "medium")
      [] level = "Low"     -> CoherenceBand(MINIMUM_COHERENCE, LOW_COHERENCE, "low")
      [] level = "Minimal" -> CoherenceBand(FromInt(0), MINIMUM_COHERENCE, "minimal")

lower(level) == band(level).lower
upper(level) == band(level).upper

(* CoherenceBand::contains and CoherenceLevel::contains.                   *)
BandContains(b, value) == FLe(b.lower, value) /\ FLt(value, b.upper)
LevelContains(level, value) == BandContains(band(level), value)

(* (0.0..=1.0).contains(&value)                                            *)
InUnitRange(value) == FLe(FromInt(0), value) /\ FLe(value, FromInt(1))

(* Mutant: the lower bound of a band is exclusive.                         *)
RECURSIVE ClassifyFrom_StrictLower(_, _)
ClassifyFrom_StrictLower(value, i) ==
    IF i > Len(Levels) THEN RetLevel("Peak", "fallback")
    ELSE LET b == band(Levels[i])
         IN  IF FLt(b.lower, value) /\ FLt(value, b.upper)
             THEN RetLevel(Levels[i], "loop")
             ELSE ClassifyFrom_StrictLower(value, i + 1)

(* The for loop of classify from position i of Levels, then the fallback.  *)
RECURSIVE ClassifyFrom(_, _)
ClassifyFrom(value, i) ==
    IF i > Len(Levels) THEN RetLevel("Peak", "fallback")
    ELSE LET b == band(Levels[i])
         IN  IF FLe(b.lower, value) /\ FLt(value, b.upper)
             THEN RetLevel(Levels[i], "loop")
             ELSE ClassifyFrom(value, i + 1)

classify(value) ==
    IF ~InUnitRange(value) THEN Panic("Coherence must be between 0 and 1")
    ELSE ClassifyFrom(value, 1)

(* Mutant: the guard rejects max_val < min_val only, an empty range passes. *)
normalize_coherence_StrictGuard(value, min_val, max_val) ==
    IF FLt(max_val, min_val) THEN Panic("max_val must be greater than min_val")
    ELSE LET normalized == FDiv(FSub(value, min_val), FSub(max_val, min_val))
         IN  RetF64(FClamp(normalized, FromInt(0), FromInt(1)))

normalize_coherence(value, min_val, max_val) ==
    IF FLe(max_val, min_val) THEN Panic("max_val must be greater than min_val")
    ELSE LET normalized == FDiv(FSub(value, min_val), FSub(max_val, min_val))
         IN  RetF64(FClamp(normalized, FromInt(0), FromInt(1)))

(* values.iter().sum::<f64>()                                              *)
RECURSIVE SumF(_)
SumF(values) ==
    IF values = <<>> THEN FromInt(0)
    ELSE FAdd(SumF(SubSeq(values, 1, Len(values) - 1)), values[Len(values)])

Mean(values) == FDiv(SumF(values), FromInt(Len(values)))

(* values.iter().map(|v| (v - mean).powi(2))                               *)
SquaredDeviations(values, mean) ==
    [i \in 1..Len(values) |-> LET dv == FSub(values[i], mean) IN FMul(dv, dv)]

(* Mutant: the sample variance, divisor len - 1.                           *)
Variance_Sample(values) ==
    FDiv(SumF(SquaredDeviations(values, Mean(values))), FromInt(Len(values) - 1))

Variance(values) ==
    FDiv(SumF(SquaredDeviations(values, Mean(values))), FromInt(Len(values)))

is_coherence_stable(values, threshold) ==
    IF Len(values) < 2 THEN RetBool(TRUE)
    ELSE RetBool(SqrtLe(Variance(values), threshold))

is_coherence_stable_default(values) == is_coherence_stable(values, Frac(5, 100))

-----------------------------------------------------------------------------
(* frequencies.rs                                                          *)

harmonic_of(frequency, harmonic) ==
    IF harmonic < 1 THEN Panic("Harmonic must be >= 1")
    ELSE RetF64(FMul(frequency, FromInt(harmonic)))

-----------------------------------------------------------------------------
(* phi.rs                                                                  *)

PHI         == Lit(<<9895, 8874, 339, 1618>>, <<0, 0, 0, 1000>>)
PHI_INVERSE == Lit(<<8949, 8749, 3398, 6180>>, <<0, 0, 0, 0, 1>>)
PHI_SQUARED == Lit(<<9895, 8874, 339, 2618>>, <<0, 0, 0, 1000>>)

(* i32::MIN and i32::MAX.                                                  *)
I32_MAX == 2147483647
I32_MIN == -2147483647 - 1

(* -n on an i32: i32::MIN has no negation; the wrapped result is i32::MIN. *)
NegOverflows(n) == n = I32_MIN
WrappingNeg(n) == IF n = I32_MIN THEN I32_MIN ELSE -n

(* The match of phi_power.  overflow_checks is the build's setting: with   *)
(* it (debug profile) an overflowing negation panics, without it (release  *)
(* profile) it wraps.  A power is returned as the base and the exponent    *)
(* handed to powi.                                                         *)
phi_power(n, overflow_checks) ==
    IF n = 0 THEN RetPow("literal", "1.0", 1)
    ELSE IF n = 1 THEN RetPow("literal", "PHI", 1)
    ELSE IF n = -1 THEN RetPow("literal", "PHI_INVERSE", 1)
    ELSE IF n > 0 THEN RetPow("powi", "PHI", n)
    ELSE IF NegOverflows(n) /\ overflow_checks
         THEN Panic("attempt to negate with overflow")
    ELSE RetPow("powi", "PHI_INVERSE", WrappingNeg(n))

U64_MAX == <<1615, 955, 737, 6744, 1844>>

(* Mutant: u64::wrapping_add, the sum modulo 2^64.                         *)
saturating_add_Wrapping(a, b) ==
    LET s == NatAdd(a, b)
    IN  IF NatLt(U64_MAX, s) THEN NatSub(s, NatAdd(U64_MAX, <<1>>)) ELSE s

(* u64::saturating_add                                                     *)
saturating_add(a, b) ==
    LET s == NatAdd(a, b) IN IF NatLt(U64_MAX, s) THEN U64_MAX ELSE s

(* u32::saturating_sub                                                     *)
saturating_sub(a, b) == IF a < b THEN 0 ELSE a - b

(* fib_curr as f64 / fib_prev as f64                                       *)
U64AsF64(a) == Fin(Sgn(FALSE, a), <<1>>)
Ratio(curr, prev) == FDiv(U64AsF64(curr), U64AsF64(prev))

(* Mutant: the ratio is b / a, whichever is larger.                        *)
is_phi_ratio_Ordered(a, b, tolerance) ==
    IF FLe(a, FromInt(0)) \/ FLe(b, FromInt(0)) THEN RetBool(FALSE)
    ELSE LET ratio == FDiv(b, a)
         IN  RetBool(FLt(FAbs(FSub(ratio, PHI)), tolerance))

is_phi_ratio(a, b, tolerance) ==
    IF FLe(a, FromInt(0)) \/ FLe(b, FromInt(0)) THEN RetBool(FALSE)
    ELSE LET ratio == FDiv(FMax(a, b), FMin(a, b))
         IN  RetBool(FLt(FAbs(FSub(ratio, PHI)), tolerance))

is_phi_ratio_default(a, b) == is_phi_ratio(a, b, Frac(1, 100))

-----------------------------------------------------------------------------
(* Bounds of the inputs the caller draws.                                  *)

MaxCoherence == 103     \* classify inputs are k/100 for k in -3..MaxCoherence
MaxNorm      == 4       \* normalize_coherence inputs are integers up to MaxNorm
MaxLen       == 4       \* longest sample sequence of is_coherence_stable
MaxPhiArg    == 5       \* is_phi_ratio arguments are integers up to MaxPhiArg
MaxPow       == 3       \* phi_power exponents -MaxPow..MaxPow and the i32 extremes
MaxHarmonic  == 3       \* harmonic numbers 0..MaxHarmonic
MaxFibN      == 96      \* fibonacci_ratio indexes 0..MaxFibN (u64 saturates at 93)

Specials == {NaN, PInf, NInf}

CoherenceInputs == {Frac(k, 100) : k \in -3..MaxCoherence} \cup Specials

NormValues == {FromInt(k) : k \in -1..(MaxNorm + 1)} \cup Specials
NormBounds == {FromInt(k) : k \in 0..MaxNorm} \cup Specials

Samples == {Frac(1, 10), Frac(4, 10), Frac(5, 10), Frac(9, 10)}
SampleSeqs == UNION {[1..len -> Samples] : len \in 0..MaxLen}
Thresholds == {Frac(-5, 100), FromInt(0), Frac(5, 100), Frac(4, 10), NaN, PInf}

(* 2 - PHI: the distance of the ratio 2/1 from PHI.                        *)
TwoMinusPhi == FSub(FromInt(2), PHI)

PhiArgs == {FromInt(k) : k \in -1..MaxPhiArg} \cup {PHI, PHI_SQUARED} \cup Specials
Tolerances == {FromInt(0), Frac(1, 100), TwoMinusPhi, FromInt(1000000), NaN, PInf}

PowInputs == (-MaxPow..MaxPow) \cup {I32_MIN, I32_MIN + 1, I32_MAX}

Frequencies == {FromInt(0), FromInt(100), Frac(783, 100), NaN, PInf}

-----------------------------------------------------------------------------
(* The caller.  pc is "idle" before a call, "loop" inside the loop of      *)
(* fibonacci_ratio and "done" once the call has returned or panicked.      *)

VARIABLES pc, call, out, fib_prev, fib_curr, iter

vars == <<pc, call, out, fib_prev, fib_curr, iter>>

NoCall == [op |-> "none", x |-> FromInt(0), y |-> FromInt(0), z |-> FromInt(0),
           values |-> <<>>, n |-> 0, checks |-> FALSE]

Init ==
    /\ pc = "idle"
    /\ call = NoCall
    /\ out = Blank
    /\ fib_prev = <<>>
    /\ fib_curr = <<>>
    /\ iter = 0

CallClassify ==
    /\ pc = "idle"
    /\ \E v \in CoherenceInputs :
        /\ call' = [NoCall EXCEPT !.op = "classify", !.x = v]
        /\ out' = classify(v)
    /\ pc' = "done"
    /\ UNCHANGED <<fib_prev, fib_curr, iter>>

CallNormalizeCoherence ==
    /\ pc = "idle"
    /\ \E v \in NormValues, lo \in NormBounds, hi \in NormBounds :
        /\ call' = [NoCall EXCEPT !.op = "normalize_coherence", !.x = v, !.y = lo, !.z = hi]
        /\ out' = normalize_coherence(v, lo, hi)
    /\ pc' = "done"
    /\ UNCHANGED <<fib_prev, fib_curr, iter>>

CallIsCoherenceStable ==
    /\ pc = "idle"
    /\ \E vs \in SampleSeqs, t \in Thresholds :
        /\ call' = [NoCall EXCEPT !.op = "is_coherence_stable", !.values = vs, !.x = t]
        /\ out' = is_coherence_stable(vs, t)
    /\ pc' = "done"
    /\ UNCHANGED <<fib_prev, fib_curr, iter>>

CallIsCoherenceStableDefault ==
    /\ pc = "idle"
    /\ \E vs \in SampleSeqs :
        /\ call' = [NoCall EXCEPT !.op = "is_coherence_stable_default", !.values = vs]
        /\ out' = is_coherence_stable_default(vs)
    /\ pc' = "done"
    /\ UNCHANGED <<fib_prev, fib_curr, iter>>

CallHarmonicOf ==
    /\ pc = "idle"
    /\ \E f \in Frequencies, h \in 0..MaxHarmonic :
        /\ call' = [NoCall EXCEPT !.op = "harmonic_of", !.x = f, !.n = h]
        /\ out' = harmonic_of(f, h)
    /\ pc' = "done"
    /\ UNCHANGED <<fib_prev, fib_curr, iter>>

CallPhiPower ==
    /\ pc = "idle"
    /\ \E n \in PowInputs, checks \in BOOLEAN :
        /\ call' = [NoCall EXCEPT !.op = "phi_power", !.n = n, !.checks = checks]
        /\ out' = phi_power(n, checks)
    /\ pc' = "done"
    /\ UNCHANGED <<fib_prev, fib_curr, iter>>

CallIsPhiRatio ==
    /\ pc = "idle"
    /\ \E a \in PhiArgs, b \in PhiArgs, t \in Tolerances :
        /\ call' = [NoCall EXCEPT !.op = "is_phi_ratio", !.x = a, !.y = b, !.z = t]
        /\ out' = is_phi_ratio(a, b, t)
    /\ pc' = "done"
    /\ UNCHANGED <<fib_prev, fib_curr, iter>>

CallIsPhiRatioDefault ==
    /\ pc = "idle"
    /\ \E a \in PhiArgs, b \in PhiArgs :
        /\ call' = [NoCall EXCEPT !.op = "is_phi_ratio_default", !.x = a, !.y = b]
        /\ out' = is_phi_ratio_default(a, b)
    /\ pc' = "done"
    /\ UNCHANGED <<fib_prev, fib_curr, iter>>

(* fibonacci_ratio: the guard, then fib_prev = fib_curr = 1.               *)
FibEnter ==
    \E n \in 0..MaxFibN :
        /\ pc = "idle"
        /\ call' = [NoCall EXCEPT !.op = "fibonacci_ratio", !.n = n]
        /\ iter' = 0
        /\ IF n < 1
           THEN /\ pc' = "done"
                /\ out' = Panic("n must be >= 1")
                /\ UNCHANGED <<fib_prev, fib_curr>>
           ELSE /\ pc' = "loop"
                /\ out' = Blank
                /\ fib_prev' = <<1>>
                /\ fib_curr' = <<1>>

(* One iteration of for _ in 0..n.saturating_sub(1).                       *)
FibStep ==
    /\ pc = "loop"
    /\ iter < saturating_sub(call.n, 1)
    /\ LET temp == fib_curr
       IN  /\ fib_curr' = saturating_add(fib_prev, fib_curr)
           /\ fib_prev' = temp
    /\ iter' = iter + 1
    /\ UNCHANGED <<pc, call, out>>

(* The range is exhausted: return fib_curr as f64 / fib_prev as f64.       *)
FibExit ==
    /\ pc = "loop"
    /\ ~(iter < saturating_sub(call.n, 1))
    /\ pc' = "done"
    /\ out' = RetF64(Ratio(fib_curr, fib_prev))
    /\ UNCHANGED <<call, fib_prev, fib_curr, iter>>

(* The caller takes the outcome and is ready for the next call.            *)
Return ==
    /\ pc = "done"
    /\ pc' = "idle"
    /\ call' = NoCall
    /\ out' = Blank
    /\ fib_prev' = <<>>
    /\ fib_curr' = <<>>
    /\ iter' = 0

Next ==
    \/ CallClassify
    \/ CallNormalizeCoherence
    \/ CallIsCoherenceStable
    \/ CallIsCoherenceStableDefault
    \/ CallHarmonicOf
    \/ CallPhiPower
    \/ CallIsPhiRatio
    \/ CallIsPhiRatioDefault
    \/ FibEnter
    \/ FibStep
    \/ FibExit
    \/ Return

Spec == Init /\ [][Next]_vars

(* Every started loop is run to its end: the loop is sequential code.      *)
FairSpec == Spec /\ WF_vars(FibStep) /\ WF_vars(FibExit)

-----------------------------------------------------------------------------
(* Properties.                                                             *)

Returned(op) == pc = "done" /\ call.op = op
Between(lo, v, hi) == FLe(lo, v) /\ FLt(v, hi)

(* C1: for every v with 0 <= v <= 1, classify(v) returns Peak when         *)
(* 0.85 <= v <= 1.0, High when 0.6 <= v < 0.85, Medium when                *)
(* 0.3 <= v < 0.6, Low when 0.1 <= v < 0.3 and Minimal when 0 <= v < 0.1;  *)
(* each cut-point classifies into the band above it.                       *)
C1_ClassifyBands ==
    (Returned("classify") /\ FLe(FromInt(0), call.x) /\ FLe(call.x, FromInt(1))) =>
        /\ out.status = "ok"
        /\ (FLe(Frac(85, 100), call.x) /\ FLe(call.x, FromInt(1))) => out.level = "Peak"
        /\ Between(Frac(6, 10), call.x, Frac(85, 100)) => out.level = "High"
        /\ Between(Frac(3, 10), call.x, Frac(6, 10)) => out.level = "Medium"
        /\ Between(Frac(1, 10), call.x, Frac(3, 10)) => out.level = "Low"
        /\ Between(FromInt(0), call.x, Frac(1, 10)) => out.level = "Minimal"

(* The cut-point 0.85 has been classified, as Peak.                        *)
C1_Witness ==
    Returned("classify") /\ FEq(call.x, Frac(85, 100)) /\ out.level = "Peak"

Rank(level) ==
    CASE level = "Peak" -> 5 [] level = "High" -> 4 [] level = "Medium" -> 3
      [] level = "Low" -> 2 [] level = "Minimal" -> 1

(* C10: classify is monotone: for v1 <= v2 in [0, 1], classify(v2) is the  *)
(* level of classify(v1) or a higher one; and the returned level L has     *)
(* L.lower() <= v < L.upper().                                             *)
C10_ClassifyMonotone ==
    (Returned("classify") /\ out.status = "ok") =>
        /\ \A v1 \in CoherenceInputs :
              (FLe(FromInt(0), v1) /\ FLe(v1, call.x)) =>
                  /\ classify(v1).status = "ok"
                  /\ Rank(classify(v1).level) <= Rank(out.level)
        /\ FLe(lower(out.level), call.x)
        /\ FLt(call.x, upper(out.level))

(* A value strictly inside [0, 1] has been classified into a middle band.  *)
C10_Witness ==
    Returned("classify") /\ FEq(call.x, Frac(3, 10)) /\ out.level = "Medium"

(* C2, as claimed: each guarded operation fails exactly on its stated      *)
(* condition and returns a value otherwise: harmonic_of iff h < 1,         *)
(* fibonacci_ratio iff n < 1, classify iff v < 0 or v > 1,                 *)
(* normalize_coherence iff max_val <= min_val.                             *)
C2_FailsExactly_Claimed ==
    pc = "done" =>
        /\ out.status \in {"ok", "panic"}
        /\ call.op = "harmonic_of" => (out.status = "panic" <=> call.n < 1)
        /\ call.op = "fibonacci_ratio" => (out.status = "panic" <=> call.n < 1)
        /\ call.op = "classify" =>
              (out.status = "panic" <=>
                  (FLt(call.x, FromInt(0)) \/ FGt(call.x, FromInt(1))))
        /\ call.op = "normalize_coherence" =>
              (out.status = "panic" <=> FLe(call.z, call.y))

(* C2, amended: as claimed, except that classify fails exactly when v is   *)
(* not within [0, 1]: when v < 0, v > 1 or v is NaN.                       *)
C2_FailsExactly ==
    pc = "done" =>
        /\ out.status \in {"ok", "panic"}
        /\ call.op = "harmonic_of" => (out.status = "panic" <=> call.n < 1)
        /\ call.op = "fibonacci_ratio" => (out.status = "panic" <=> call.n < 1)
        /\ call.op = "classify" =>
              (out.status = "panic" <=>
                  (FLt(call.x, FromInt(0)) \/ FGt(call.x, FromInt(1)) \/ IsNaN(call.x)))
        /\ call.op = "normalize_coherence" =>
              (out.status = "panic" <=> FLe(call.z, call.y))

(* classify has been called with NaN and has panicked.                     *)
C2_Witness ==
    Returned("classify") /\ IsNaN(call.x) /\ out.status = "panic"

(* C6, as claimed: for max_val > min_val the result of normalize_coherence *)
(* is in [0, 1] and equals clamp((value - min_val)/(max_val - min_val),    *)
(* 0, 1): 0 for value <= min_val, 1 for value >= max_val, the linear       *)
(* rescale in between; classify accepts the result.                        *)
C6_NormalizeInUnitRange ==
    (Returned("normalize_coherence") /\ FGt(call.z, call.y)) =>
        /\ out.status = "ok"
        /\ FLe(FromInt(0), out.val)
        /\ FLe(out.val, FromInt(1))
        /\ FLe(call.x, call.y) => FEq(out.val, FromInt(0))
        /\ FGe(call.x, call.z) => FEq(out.val, FromInt(1))
        /\ (FLt(call.y, call.x) /\ FLt(call.x, call.z)) =>
              FEq(out.val, FDiv(FSub(call.x, call.y), FSub(call.z, call.y)))
        /\ classify(out.val).status = "ok"

(* The population standard deviation of finite samples is <= t, stated     *)
(* without mean or root: len * sum(v^2) - sum(v)^2 <= len^2 * t^2, t >= 0. *)
SumOfSquares(values) == SumF([i \in 1..Len(values) |-> FMul(values[i], values[i])])

PopulationStdDevLe(values, t) ==
    LET len == FromInt(Len(values))
        total == SumF(values)
    IN  /\ ~IsNaN(t)
        /\ FGe(t, FromInt(0))
        /\ \/ t.k = "pinf"
           \/ FLe(FSub(FMul(len, SumOfSquares(values)), FMul(total, total)),
                  FMul(FMul(len, len), FMul(t, t)))

WithinOfPhi(a, b, t) ==
    LET hi == IF FGe(a, b) THEN a ELSE b
        lo == IF FGe(a, b) THEN b ELSE a
        diff == FSub(hi, FMul(PHI, lo))
    IN  /\ ~IsNaN(t)
        /\ IsFinite(a)
        /\ IsFinite(b)
        /\ \/ t.k = "pinf"
           \/ /\ IsFinite(t)
              /\ FLt(FNeg(FMul(t, lo)), diff)
              /\ FLt(diff, FMul(t, lo))

(* The claim of C8 for arguments a, b, the tolerance t and the outcome o.  *)
PhiRatioAsClaimed(a, b, t, o) ==
    /\ o.status = "ok"
    /\ (FLe(a, FromInt(0)) \/ FLe(b, FromInt(0))) => ~o.flag
    /\ (FGt(a, FromInt(0)) /\ FGt(b, FromInt(0))) => (o.flag <=> WithinOfPhi(a, b, t))
    /\ o.flag = is_phi_ratio(b, a, t).flag

C5_PhiPowerTotal ==
    Returned("phi_power") =>
        /\ out.status = "ok"
        /\ call.n = 0 => out.pw = [via |-> "literal", base |-> "1.0", exp |-> 1]
        /\ call.n = 1 => out.pw = [via |-> "literal", base |-> "PHI", exp |-> 1]
        /\ call.n = -1 => out.pw = [via |-> "literal", base |-> "PHI_INVERSE", exp |-> 1]
        /\ call.n > 1 => out.pw = [via |-> "powi", base |-> "PHI", exp |-> call.n]
        /\ call.n < -1 =>
              /\ out.pw.via = "powi"
              /\ out.pw.base = "PHI_INVERSE"
              /\ out.pw.exp >= 0
              /\ call.n = -out.pw.exp

(* C4, as claimed: for every accepted n >= 20, the large n at which the    *)
(* u64 additions saturate included, fibonacci_ratio(n) is within 1e-6 of   *)
(* PHI.                                                                    *)
C4_RatioWithinOfPhi ==
    (Returned("fibonacci_ratio") /\ out.status = "ok" /\ call.n >= 20) =>
        FLt(FAbs(FSub(out.val, PHI)), Frac(1, 1000000))

(* <<F(k), F(k+1)>> of the Fibonacci sequence F(0) = 0, F(1) = F(2) = 1,   *)
(* by the doubling identities F(2m) = F(m) * (2*F(m+1) - F(m)) and         *)
(* F(2m+1) = F(m)^2 + F(m+1)^2, on unbounded naturals.                     *)
RECURSIVE FibPair(_)
FibPair(k) ==
    IF k = 0 THEN <<<<>>, <<1>>>>
    ELSE LET h == FibPair(k \div 2)
             c == NatMul(h[1], NatSub(NatAdd(h[2], h[2]), h[1]))
             d == NatAdd(NatMul(h[1], h[1]), NatMul(h[2], h[2]))
         IN  IF k % 2 = 0 THEN <<c, d>> ELSE <<d, NatAdd(c, d)>>

F(k) == FibPair(k)[1]

InFibonacciLoop == call.op = "fibonacci_ratio" /\ out.status # "panic" /\ pc # "idle"

(* The state of the loop of fibonacci_ratio after iter iterations.         *)
C9_LoopInvariant ==
    InFibonacciLoop =>
        /\ call.n >= 1
        /\ iter <= call.n - 1
        /\ iter = 0 => (fib_prev = <<1>> /\ fib_curr = <<1>>)
        /\ NatLe(<<1>>, fib_prev)
        /\ NatLe(fib_prev, fib_curr)
        /\ NatLe(fib_curr, U64_MAX)
        /\ fib_prev = (IF NatLe(F(iter + 1), U64_MAX) THEN F(iter + 1) ELSE U64_MAX)
        /\ fib_curr = (IF NatLe(F(iter + 2), U64_MAX) THEN F(iter + 2) ELSE U64_MAX)
        /\ pc = "done" =>
              /\ iter = call.n - 1
              /\ out.status = "ok"
              /\ FEq(FMul(out.val, U64AsF64(fib_prev)), U64AsF64(fib_curr))
              /\ call.n = 1 => FEq(out.val, FromInt(1))
              /\ NatLe(F(call.n + 1), U64_MAX) =>
                    (fib_prev = F(call.n) /\ fib_curr = F(call.n + 1))

(* C9: for every n >= 1 the loop of fibonacci_ratio starts from (1, 1),    *)
(* runs exactly n - 1 iterations and terminates; after every iteration     *)
(* 1 <= fib_prev <= fib_curr <= 2^64 - 1 (the addition clamps, never       *)
(* wraps, and a clamped value stays clamped); while F(n+1) <= 2^64 - 1 the *)
(* final pair is (F(n), F(n+1)), so n = 1 yields the ratio 1/1.            *)
C9_FibonacciLoop ==
    /\ []C9_LoopInvariant
    /\ [][(pc = "loop" /\ fib_curr = U64_MAX) => fib_curr' = U64_MAX]_vars
    /\ (pc = "loop") ~> (pc = "done")

(* The loop has run past the last Fibonacci number a u64 holds and has     *)
(* returned with both variables clamped.                                   *)
C9_Witness ==
    /\ Returned("fibonacci_ratio")
    /\ fib_prev = U64_MAX
    /\ fib_curr = U64_MAX
    /\ iter = call.n - 1

====
